---- MODULE Spec2Model ----
(***************************************************************************)
(* State-machine model of connect/proxy/proxy.go: the Proxy's Serve()      *)
(* reconfiguration loop, startListener() and Close().                      *)
(*                                                                         *)
(* Threads of execution:                                                   *)
(*   - the coordinator running Proxy.Serve()            (serve* variables) *)
(*   - the caller of Proxy.Close()                      (close* variables) *)
(*   - per started listener, the goroutine running l.Serve() and the       *)
(*     goroutine waiting on stopChan and then calling l.Close()            *)
(*   - the ConfigWatcher feeding the channel returned by Watch()           *)
(***************************************************************************)
EXTENDS Integers, Sequences, FiniteSets, TLC

\* ---------------------------------------------------------------- bounds
MaxSnapshots  == 2   \* snapshots the watcher delivers in one run
MaxUpstreams  == 2   \* upstream entries per snapshot
MaxListeners  == 3   \* listeners (public + upstream) one run may start
MaxCloseCalls == 2   \* calls of Close() one run makes
ChanCap       == 1   \* snapshots that may wait in the watcher's channel

\* ---------------------------------------------------------- value sets
Nil        == 0                 \* the nil pointer (no config, no service)
ServiceIDs == {1, 2}            \* values of Config.ProxiedServiceID
Ports      == {0, 5000}         \* values of UpstreamConfig.LocalBindPort
DevServiceID == 1               \* ProxiedServiceID of the config file

RECURSIVE SeqsUpTo(_, _)
SeqsUpTo(S, n) ==
  IF n = 0 THEN {<<>>}
  ELSE LET shorter == SeqsUpTo(S, n - 1)
       IN shorter \cup {Append(s, x) : s \in {t \in shorter : Len(t) = n - 1}, x \in S}

\* A configuration snapshot (*Config): the proxied service and the upstreams
\* (each upstream reduced to its LocalBindPort).
Snapshots == [sid : ServiceIDs, ups : SeqsUpTo(Ports, MaxUpstreams)]

VARIABLES
  service,      \* p.service: Nil or the index in services of the identity service
  services,     \* every identity service ever built: [sid, closes]
  stopChan,     \* p.stopChan: "open" or "closed"
  fires,        \* successful close(p.stopChan) operations so far
  panicked,     \* the process died of a run-time panic
  delivered,    \* every snapshot the watcher has sent, in order
  watchCh,      \* the watcher's channel: indices into delivered, oldest first
  servePc,      \* where Serve() is
  wake,         \* the select case that woke or was chosen by Serve()
  newCfg,       \* Serve()'s newCfg: index into delivered, or Nil
  cfg,          \* Serve()'s cfg: index into delivered, or Nil
  serveRet,     \* what Serve() returned: "none", "nil", "err"
  received,     \* indices of the snapshots Serve() received, in order
  applied,      \* indices of the snapshots Serve() finished applying, in order
  svcErr,       \* connect.NewService failed
  listeners,    \* every listener passed to startListener, in order
  closePc,      \* where Close() is
  closeCalls,   \* calls of Close() so far
  heldAtCall,   \* p.service when the running Close() was called
  svcCloseCalls \* p.service.Close() calls Close() made (on nil too)

vars == <<service, services, stopChan, fires, panicked, delivered, watchCh,
          servePc, wake, newCfg, cfg, serveRet, received, applied, svcErr,
          listeners, closePc, closeCalls, heldAtCall, svcCloseCalls>>

serveVars == <<servePc, wake, newCfg, cfg, serveRet, received, applied, svcErr>>
closeVars == <<closePc, closeCalls, heldAtCall, svcCloseCalls>>
chanVars  == <<delivered, watchCh>>

\* ------------------------------------------------------------ the program

\* NewFromConfigFile (service built from the cert files, line 45) or New
\* (service left nil until the first config, lines 63-64).
Init ==
  /\ \E fromFile \in BOOLEAN :
       IF fromFile
       THEN /\ services = <<[sid |-> DevServiceID, closes |-> 0]>>
            /\ service = 1
       ELSE /\ services = <<>>
            /\ service = Nil
  /\ stopChan = "open"
  /\ fires = 0
  /\ panicked = FALSE
  /\ delivered = <<>>
  /\ watchCh = <<>>
  /\ servePc = "notcalled"
  /\ wake = "none"
  /\ newCfg = Nil
  /\ cfg = Nil
  /\ serveRet = "none"
  /\ received = <<>>
  /\ applied = <<>>
  /\ svcErr = FALSE
  /\ listeners = <<>>
  /\ closePc = "idle"
  /\ closeCalls = 0
  /\ heldAtCall = Nil
  /\ svcCloseCalls = 0

\* Upstream entries of a list that ask for a listener (used to keep a run
\* within MaxListeners).
Startable(ups) == Cardinality({j \in DOMAIN ups : ups[j] >= 1})

RECURSIVE Demand(_)
Demand(snaps) ==
  IF snaps = <<>> THEN 0
  ELSE Startable(Head(snaps).ups) + Demand(Tail(snaps))

\* The ConfigWatcher sends one more snapshot, drawn from S, on the channel
\* Watch() returns. A Serve() parked in its select with nothing chosen yet is
\* woken by it.
WatcherDeliverOf(S) ==
  /\ ~panicked
  /\ Len(delivered) < MaxSnapshots
  /\ Len(watchCh) < ChanCap
  /\ \E s \in S :
       /\ 1 + Demand(delivered) + Startable(s.ups) <= MaxListeners
       /\ delivered' = Append(delivered, s)
  /\ watchCh' = Append(watchCh, Len(delivered) + 1)
  /\ wake' = IF servePc = "blocked" /\ wake = "none" THEN "cfg" ELSE wake
  /\ UNCHANGED <<service, services, stopChan, fires, panicked, servePc, newCfg,
                 cfg, serveRet, received, applied, svcErr, listeners>>
  /\ UNCHANGED closeVars

WatcherDeliver == WatcherDeliverOf(Snapshots)

\* Serve() is called and reaches its select.
ServeCall ==
  /\ ~panicked
  /\ servePc = "notcalled"
  /\ servePc' = "select"
  /\ UNCHANGED <<service, services, stopChan, fires, panicked, wake, newCfg, cfg,
                 serveRet, received, applied, svcErr, listeners>>
  /\ UNCHANGED <<chanVars, closeVars>>

\* select with neither case ready: the goroutine parks until the first of the
\* two events, which then decides the case.
ServePark ==
  /\ ~panicked
  /\ servePc = "select"
  /\ watchCh = <<>>
  /\ stopChan = "open"
  /\ servePc' = "blocked"
  /\ wake' = "none"
  /\ UNCHANGED <<service, services, stopChan, fires, panicked, newCfg, cfg, serveRet, received, applied, svcErr, listeners>>
  /\ UNCHANGED <<chanVars, closeVars>>

\* A receive from the watcher's channel: the oldest snapshot in it.
RecvNoDequeue(ch) == [val |-> Head(ch), rest |-> ch]
Recv(ch) == [val |-> Head(ch), rest |-> Tail(ch)]

\* cfg == nil: the first snapshot does the initial setup.
AlwaysSetup(c) == TRUE
SetupOnNewID(c) == c = Nil \/ delivered[Head(watchCh)].sid # delivered[c].sid
IsInitialSetup(c) == c = Nil

\* case newCfg := <-p.cfgWatcher.Watch(): chosen by a select that found it ready
\* (at random when the stop case is ready too), or the case that woke a parked
\* select.
ServeRecvAnyWake ==
  /\ ~panicked
  /\ \/ servePc = "select" /\ watchCh # <<>>
     \/ servePc = "blocked" /\ wake # "none" /\ watchCh # <<>>
  /\ newCfg' = Recv(watchCh).val
  /\ watchCh' = Recv(watchCh).rest
  /\ received' = Append(received, Recv(watchCh).val)
  /\ servePc' = IF IsInitialSetup(cfg) THEN "setup" ELSE "upstreams"
  /\ wake' = "none"
  /\ UNCHANGED <<service, services, stopChan, fires, panicked, delivered, cfg,
                 serveRet, applied, svcErr, listeners>>
  /\ UNCHANGED closeVars
ServeRecv ==
  /\ ~panicked
  /\ \/ servePc = "select" /\ watchCh # <<>>
     \/ servePc = "blocked" /\ wake = "cfg"
  /\ newCfg' = Recv(watchCh).val
  /\ watchCh' = Recv(watchCh).rest
  /\ received' = Append(received, Recv(watchCh).val)
  /\ servePc' = IF IsInitialSetup(cfg) THEN "setup" ELSE "upstreams"
  /\ wake' = "none"
  /\ UNCHANGED <<service, services, stopChan, fires, panicked, delivered, cfg,
                 serveRet, applied, svcErr, listeners>>
  /\ UNCHANGED closeVars

\* case <-p.stopChan: return nil
ServeStopErr ==
  /\ ~panicked
  /\ \/ servePc = "select" /\ stopChan = "closed"
     \/ servePc = "blocked" /\ wake = "stop"
  /\ servePc' = "returned"
  /\ serveRet' = "err"
  /\ wake' = "none"
  /\ UNCHANGED <<service, services, stopChan, fires, panicked, newCfg, cfg, received, applied, svcErr, listeners>>
  /\ UNCHANGED <<chanVars, closeVars>>
ServeStop ==
  /\ ~panicked
  /\ \/ servePc = "select" /\ stopChan = "closed"
     \/ servePc = "blocked" /\ wake = "stop"
  /\ servePc' = "returned"
  /\ serveRet' = "nil"
  /\ wake' = "none"
  /\ UNCHANGED <<service, services, stopChan, fires, panicked, newCfg, cfg, received, applied, svcErr, listeners>>
  /\ UNCHANGED <<chanVars, closeVars>>

\* startListener(name, l): spawns the goroutine that runs l.Serve() and the one
\* that waits for stopChan and calls l.Close(); it always returns nil. The
\* listener was built on svc (NewPublicListener / NewUpstreamListener).
startListener(ls, kind, port, svc, snap, pos) ==
  [listeners |-> Append(ls, [kind |-> kind, port |-> port, svc |-> svc,
                             snap |-> snap, pos |-> pos, serve |-> "spawned",
                             closer |-> "waiting", closes |-> 0]),
   err |-> FALSE]

\* The initial setup, run when cfg == nil: connect.NewService and
\* p.service = service (an error makes Serve() return it), then
\* NewPublicListener(p.service, ...) and startListener("public listener", l)
\* (an error makes Serve() return it). The goroutine that waits for
\* service.ReadyWait() only logs and is left out.
ServeSetupIgnoreErr ==
  /\ ~panicked
  /\ servePc = "setup"
  /\ \E ok \in BOOLEAN :
       LET svc == IF ok THEN Len(services) + 1 ELSE service
           r == startListener(listeners, "public", Nil, svc, newCfg, 0)
       IN /\ services' = IF ok
                         THEN Append(services, [sid |-> delivered[newCfg].sid, closes |-> 0])
                         ELSE services
          /\ service' = svc
          /\ svcErr' = (svcErr \/ ~ok)
          /\ listeners' = r.listeners
          /\ servePc' = "upstreams"
          /\ UNCHANGED serveRet
  /\ UNCHANGED <<stopChan, fires, panicked, wake, newCfg, cfg, received, applied>>
  /\ UNCHANGED <<chanVars, closeVars>>
ServeSetup ==
  /\ ~panicked
  /\ servePc = "setup"
  /\ \E ok \in BOOLEAN :
       IF ~ok
       THEN /\ svcErr' = TRUE
            /\ servePc' = "returned"
            /\ serveRet' = "err"
            /\ UNCHANGED <<service, services, listeners>>
       ELSE LET svc == Len(services) + 1
                r == startListener(listeners, "public", Nil, svc, newCfg, 0)
            IN /\ services' = Append(services, [sid |-> delivered[newCfg].sid, closes |-> 0])
               /\ service' = svc
               /\ listeners' = r.listeners
               /\ IF r.err
                  THEN servePc' = "returned" /\ serveRet' = "err"
                  ELSE servePc' = "upstreams" /\ UNCHANGED serveRet
               /\ UNCHANGED svcErr
  /\ UNCHANGED <<stopChan, fires, panicked, wake, newCfg, cfg, received, applied>>
  /\ UNCHANGED <<chanVars, closeVars>>

\* uc.LocalBindPort < 1: the upstream has no local bind port.
NegativeBindPort(port) == port < 0
HasNoLocalBindPort(port) == port < 1

\* One iteration of the loop over newCfg.Upstreams: an upstream without a local
\* bind port is logged and skipped (continue), any other gets a new listener; a
\* start error is only logged.
UpstreamStepDedup(ls, port, snap, pos) ==
  IF HasNoLocalBindPort(port)
     \/ \E i \in DOMAIN ls : ls[i].kind = "upstream" /\ ls[i].port = port
  THEN ls
  ELSE startListener(ls, "upstream", port, service, snap, pos).listeners
UpstreamStep(ls, port, snap, pos) ==
  IF HasNoLocalBindPort(port)
  THEN ls
  ELSE startListener(ls, "upstream", port, service, snap, pos).listeners

\* for _, uc := range newCfg.Upstreams, from position pos on.
RECURSIVE UpstreamLoop(_, _, _)
UpstreamLoop(ls, snap, pos) ==
  IF pos > Len(delivered[snap].ups)
  THEN ls
  ELSE UpstreamLoop(UpstreamStep(ls, delivered[snap].ups[pos], snap, pos), snap, pos + 1)

\* The loop over the upstreams of newCfg, then cfg = newCfg, and back to the
\* select.
ServeUpstreams ==
  /\ ~panicked
  /\ servePc = "upstreams"
  /\ listeners' = UpstreamLoop(listeners, newCfg, 1)
  /\ cfg' = newCfg
  /\ applied' = Append(applied, newCfg)
  /\ servePc' = "select"
  /\ UNCHANGED <<service, services, stopChan, fires, panicked, wake, newCfg, serveRet, received, svcErr>>
  /\ UNCHANGED <<chanVars, closeVars>>

\* The Listener contract: l.Serve() either starts serving or fails to start
\* (a listener already closed fails); once serving it blocks until an error, or
\* until the listener is closed, which makes it return.
ServeStartOutcomes(l) == IF l.closes = 0 THEN {"serving", "startfail"} ELSE {"startfail"}
ServeUnblocked(l) == l.closes > 0

\* The goroutine of startListener that runs l.Serve(): the call begins.
ListenerServeBeginFatal(i) ==
  /\ ~panicked
  /\ listeners[i].serve = "spawned"
  /\ \E o \in ServeStartOutcomes(listeners[i]) :
       /\ listeners' = [listeners EXCEPT ![i].serve = o]
       /\ IF o = "startfail" /\ servePc # "returned"
          THEN servePc' = "returned" /\ serveRet' = "err"
          ELSE UNCHANGED <<servePc, serveRet>>
  /\ UNCHANGED <<service, services, stopChan, fires, panicked>>
  /\ UNCHANGED <<wake, newCfg, cfg, received, applied, svcErr>>
  /\ UNCHANGED <<chanVars, closeVars>>
ListenerServeBegin(i) ==
  /\ ~panicked
  /\ listeners[i].serve = "spawned"
  /\ \E o \in ServeStartOutcomes(listeners[i]) :
       listeners' = [listeners EXCEPT ![i].serve = o]
  /\ UNCHANGED <<service, services, stopChan, fires, panicked>>
  /\ UNCHANGED <<serveVars, chanVars, closeVars>>

\* l.Serve() returns nil once the listener is closed; the goroutine logs that
\* the listener stopped and ends.
ListenerServeStopped(i) ==
  /\ ~panicked
  /\ listeners[i].serve = "serving"
  /\ ServeUnblocked(listeners[i])
  /\ listeners' = [listeners EXCEPT ![i].serve = "stopped"]
  /\ UNCHANGED <<service, services, stopChan, fires, panicked>>
  /\ UNCHANGED <<serveVars, chanVars, closeVars>>

\* l.Serve() returns an error; the goroutine logs it and ends.
ListenerServeErrored(i) ==
  /\ ~panicked
  /\ listeners[i].serve = "serving"
  /\ listeners' = [listeners EXCEPT ![i].serve = "errored"]
  /\ UNCHANGED <<service, services, stopChan, fires, panicked>>
  /\ UNCHANGED <<serveVars, chanVars, closeVars>>

ListenerServeReturn(i) == ListenerServeStopped(i) \/ ListenerServeErrored(i)

\* The goroutine of startListener that does <-p.stopChan and then l.Close().
ListenerCloserNoWait(i) ==
  /\ ~panicked
  /\ listeners[i].closer = "waiting"
  /\ listeners' = [listeners EXCEPT ![i].closer = "done", ![i].closes = @ + 1]
  /\ UNCHANGED <<service, services, stopChan, fires, panicked>>
  /\ UNCHANGED <<serveVars, chanVars, closeVars>>
ListenerCloserNoClose(i) ==
  /\ ~panicked
  /\ listeners[i].closer = "waiting"
  /\ stopChan = "closed"
  /\ listeners' = [listeners EXCEPT ![i].closer = "done"]
  /\ UNCHANGED <<service, services, stopChan, fires, panicked>>
  /\ UNCHANGED <<serveVars, chanVars, closeVars>>
ListenerCloserRepeat(i) ==
  /\ ~panicked
  /\ listeners[i].closes < 2
  /\ stopChan = "closed"
  /\ listeners' = [listeners EXCEPT ![i].closer = "done", ![i].closes = @ + 1]
  /\ UNCHANGED <<service, services, stopChan, fires, panicked>>
  /\ UNCHANGED <<serveVars, chanVars, closeVars>>
ListenerCloser(i) ==
  /\ ~panicked
  /\ listeners[i].closer = "waiting"
  /\ stopChan = "closed"
  /\ listeners' = [listeners EXCEPT ![i].closer = "done", ![i].closes = @ + 1]
  /\ UNCHANGED <<service, services, stopChan, fires, panicked>>
  /\ UNCHANGED <<serveVars, chanVars, closeVars>>

\* Close() is called (a later call only after the earlier one returned) and does
\* close(p.stopChan): closing a closed channel panics. A Serve() parked in its
\* select with nothing chosen yet is woken by it.
CloseStopChanIdempotent ==
  /\ ~panicked
  /\ closePc \in {"idle", "returned"}
  /\ closeCalls < MaxCloseCalls
  /\ closeCalls' = closeCalls + 1
  /\ heldAtCall' = service
  /\ stopChan' = "closed"
  /\ fires' = IF stopChan = "closed" THEN fires ELSE fires + 1
  /\ closePc' = "fired"
  /\ wake' = IF servePc = "blocked" /\ wake = "none" THEN "stop" ELSE wake
  /\ UNCHANGED <<service, services, panicked, servePc, newCfg, cfg, serveRet,
                 received, applied, svcErr, listeners, svcCloseCalls>>
  /\ UNCHANGED chanVars
CloseStopChan ==
  /\ ~panicked
  /\ closePc \in {"idle", "returned"}
  /\ closeCalls < MaxCloseCalls
  /\ closeCalls' = closeCalls + 1
  /\ heldAtCall' = service
  /\ IF stopChan = "closed"
     THEN /\ panicked' = TRUE
          /\ closePc' = "dead"
          /\ UNCHANGED <<stopChan, fires, wake>>
     ELSE /\ stopChan' = "closed"
          /\ fires' = fires + 1
          /\ closePc' = "fired"
          /\ wake' = IF servePc = "blocked" /\ wake = "none" THEN "stop" ELSE wake
          /\ UNCHANGED panicked
  /\ UNCHANGED <<service, services, servePc, newCfg, cfg, serveRet, received,
                 applied, svcErr, listeners, svcCloseCalls>>
  /\ UNCHANGED chanVars

\* if p.service != nil
CloseCheckServiceWaits ==
  /\ ~panicked
  /\ closePc = "fired"
  /\ \A i \in DOMAIN listeners :
       listeners[i].closer = "done" /\ listeners[i].serve \notin {"spawned", "serving"}
  /\ closePc' = IF service # Nil THEN "closing" ELSE "returned"
  /\ UNCHANGED <<service, services, stopChan, fires, panicked, listeners,
                 closeCalls, heldAtCall, svcCloseCalls>>
  /\ UNCHANGED <<serveVars, chanVars>>
CloseCheckServiceNoNilCheck ==
  /\ ~panicked
  /\ closePc = "fired"
  /\ closePc' = "closing"
  /\ UNCHANGED <<service, services, stopChan, fires, panicked, listeners,
                 closeCalls, heldAtCall, svcCloseCalls>>
  /\ UNCHANGED <<serveVars, chanVars>>
CloseCheckService ==
  /\ ~panicked
  /\ closePc = "fired"
  /\ closePc' = IF service # Nil THEN "closing" ELSE "returned"
  /\ UNCHANGED <<service, services, stopChan, fires, panicked, listeners,
                 closeCalls, heldAtCall, svcCloseCalls>>
  /\ UNCHANGED <<serveVars, chanVars>>

\* p.service.Close(), on the value p.service holds now; Close() returns.
CloseService ==
  /\ ~panicked
  /\ closePc = "closing"
  /\ svcCloseCalls' = svcCloseCalls + 1
  /\ IF service = Nil
     THEN /\ panicked' = TRUE
          /\ closePc' = "dead"
          /\ UNCHANGED services
     ELSE /\ services' = [services EXCEPT ![service].closes = @ + 1]
          /\ closePc' = "returned"
          /\ UNCHANGED panicked
  /\ UNCHANGED <<service, stopChan, fires, listeners, closeCalls, heldAtCall>>
  /\ UNCHANGED <<serveVars, chanVars>>

ServeNext ==
  \/ ServePark
  \/ ServeRecv
  \/ ServeStop
  \/ ServeSetup
  \/ ServeUpstreams

CloseNext ==
  \/ CloseStopChan
  \/ CloseCheckService
  \/ CloseService

ListenerNext ==
  \/ \E i \in DOMAIN listeners : ListenerServeBegin(i)
  \/ \E i \in DOMAIN listeners : ListenerServeReturn(i)
  \/ \E i \in DOMAIN listeners : ListenerCloser(i)

Next ==
  \/ WatcherDeliver
  \/ ServeCall
  \/ ServeNext
  \/ CloseNext
  \/ ListenerNext

Spec == Init /\ [][Next]_vars

\* The specification of the liveness claims. Close() is called only once, as
\* its comment requires; the scheduler runs every goroutine that can take a
\* step: the coordinator, the caller of Close(), and each listener's
\* close-watcher. Every snapshot is of the same proxied service (nothing about
\* progress reads the service id).
LiveSnapshots == {s \in Snapshots : s.sid = DevServiceID}
WatcherDeliverLive == WatcherDeliverOf(LiveSnapshots)

LiveNext ==
  \/ WatcherDeliverLive
  \/ ServeCall
  \/ ServeNext
  \/ closeCalls = 0 /\ CloseStopChan
  \/ CloseCheckService
  \/ CloseService
  \/ ListenerNext

LiveSpec ==
  /\ Init
  /\ [][LiveNext]_vars
  /\ WF_vars(ServeNext)
  /\ WF_vars(CloseCheckService \/ CloseService)
  /\ \A i \in 1..MaxListeners : WF_vars(i \in DOMAIN listeners /\ ListenerCloser(i))

\* The specification of shutdown: LiveSpec, and the scheduler also runs each
\* listener's l.Serve() goroutine when it can begin or can return because the
\* listener was closed (an error of a serving listener is never forced).
ShutdownSpec ==
  /\ LiveSpec
  /\ \A i \in 1..MaxListeners : WF_vars(i \in DOMAIN listeners /\ ListenerServeBegin(i))
  /\ \A i \in 1..MaxListeners : WF_vars(i \in DOMAIN listeners /\ ListenerServeStopped(i))

\* ------------------------------------------------------------- the claims

PublicListeners   == {i \in DOMAIN listeners : listeners[i].kind = "public"}
UpstreamListeners == {i \in DOMAIN listeners : listeners[i].kind = "upstream"}
SeqSet(q) == {q[i] : i \in DOMAIN q}

\* C1: when the stop signal fires while Serve() is parked in its select,
\* Serve() eventually returns nil and every listener started so far has had
\* Close() invoked exactly once; no listener is ever closed twice.
C1_StopWhileBlocked == servePc = "blocked" /\ wake = "stop"
C1_Stopped ==
  /\ servePc = "returned"
  /\ serveRet = "nil"
  /\ \A i \in DOMAIN listeners : listeners[i].closes = 1
C1_StopUnblocksServe ==
  /\ [](\A i \in DOMAIN listeners : listeners[i].closes <= 1)
  /\ (C1_StopWhileBlocked ~> C1_Stopped)
C1_Witness ==
  /\ C1_Stopped
  /\ Len(listeners) >= 2
  /\ received = applied /\ applied # <<>>

\* C2: the first snapshot applied leaves the proxy initialised with exactly one
\* public listener, and no later snapshot starts another: there is no public
\* listener before the setup, exactly one once a config is current, never two.
C2_OnePublicListener ==
  /\ Cardinality(PublicListeners) <= 1
  /\ (cfg # Nil) = (applied # <<>>)
  /\ cfg # Nil => Cardinality(PublicListeners) = 1
  /\ received = <<>> => PublicListeners = {}
C2_Witness ==
  /\ Len(applied) = 2
  /\ Cardinality(PublicListeners) = 1
  /\ listeners[1].kind = "public" /\ listeners[1].snap = 1

\* C3: an upstream whose localBindPort is < 1 never gets a listener, Serve()
\* does not return because of it (it returns only nil after the stop signal or
\* the identity error), and every other upstream of the snapshot is started.
C3_SkipsPortlessUpstream ==
  /\ \A i \in UpstreamListeners : listeners[i].port >= 1
  /\ \A k \in SeqSet(applied) : \A pos \in DOMAIN delivered[k].ups :
       delivered[k].ups[pos] >= 1 =>
         \E i \in UpstreamListeners :
           /\ listeners[i].snap = k /\ listeners[i].pos = pos
           /\ listeners[i].port = delivered[k].ups[pos]
  /\ servePc = "returned" =>
       \/ serveRet = "nil" /\ stopChan = "closed"
       \/ serveRet = "err" /\ svcErr
C3_Witness ==
  /\ servePc = "blocked" /\ wake = "none"
  /\ \E k \in SeqSet(applied) :
       /\ delivered[k].ups = <<0, 5000>>
       /\ \E i \in UpstreamListeners : listeners[i].snap = k /\ listeners[i].pos = 2
       /\ ~ \E i \in UpstreamListeners : listeners[i].snap = k /\ listeners[i].pos = 1

\* C4: the upstream listeners started are, in order, one per upstream entry
\* with localBindPort >= 1 of each applied snapshot, with nothing merged across
\* snapshots: their number is the sum of the valid entries of the snapshots
\* applied.
ValidEntries(k) ==
  LET ups == delivered[k].ups
      F[n \in 0..Len(ups)] ==
        IF n = 0 THEN <<>>
        ELSE IF ups[n] >= 1 THEN Append(F[n - 1], <<k, n, ups[n]>>) ELSE F[n - 1]
  IN F[Len(ups)]
RECURSIVE ExpectedStarts(_)
ExpectedStarts(ks) ==
  IF ks = <<>> THEN <<>> ELSE ValidEntries(Head(ks)) \o ExpectedStarts(Tail(ks))
UpstreamStarts ==
  LET F[n \in 0..Len(listeners)] ==
        IF n = 0 THEN <<>>
        ELSE IF listeners[n].kind = "upstream"
             THEN Append(F[n - 1], <<listeners[n].snap, listeners[n].pos, listeners[n].port>>)
             ELSE F[n - 1]
  IN F[Len(listeners)]
C4_OneStartPerEntryPerSnapshot ==
  /\ UpstreamStarts = ExpectedStarts(applied)
  /\ Cardinality(UpstreamListeners) = Demand([i \in DOMAIN applied |-> delivered[applied[i]]])
C4_Witness ==
  /\ Len(applied) = 2
  /\ delivered[1] = delivered[2]
  /\ \E i, j \in UpstreamListeners :
       /\ listeners[i].snap = 1 /\ listeners[j].snap = 2
       /\ listeners[i].port = listeners[j].port

\* C5: when building the identity service fails on the first snapshot, Serve()
\* has returned the error, has handled that one event only and has applied
\* nothing, and no listener exists.
C5_IdentityFailureIsFatal ==
  svcErr =>
    /\ servePc = "returned" /\ serveRet = "err"
    /\ listeners = <<>>
    /\ Len(received) = 1 /\ applied = <<>> /\ cfg = Nil
C5_Witness ==
  /\ svcErr
  /\ Len(delivered) = 2 /\ watchCh # <<>>
  /\ stopChan = "open"

\* C6: when the public listener fails to start, Serve() has returned an error
\* and no upstream of that snapshot was processed.
C6_PublicStartFailureIsFatal ==
  \A i \in PublicListeners :
    listeners[i].serve = "startfail" /\ listeners[i].closes = 0 =>
      /\ servePc = "returned" /\ serveRet = "err"
      /\ ~ \E j \in UpstreamListeners : listeners[j].snap = listeners[i].snap

\* C7: while no identity service was ever built, Close() makes no call of an
\* identity service's Close(); and firing the stop signal still makes Serve()
\* return, whether it was parked already or is called later.
C7_NoService == services = <<>>
C7_CloseWithoutService ==
  /\ [](C7_NoService => svcCloseCalls = 0 /\ ~panicked)
  /\ [](stopChan = "closed" /\ servePc = "blocked" => wake # "none")
  /\ ((C7_NoService /\ fires = 1 /\ servePc # "notcalled") ~> servePc = "returned")
C7_Witness ==
  /\ C7_NoService /\ delivered = <<>>
  /\ closePc = "returned" /\ svcCloseCalls = 0
  /\ servePc = "returned" /\ serveRet = "nil"

\* C8: the stop signal fires at most once and never returns to unfired, and a
\* second call of Close() is fatal: when Close() has been called twice the
\* process has panicked.
C8_CloseOnlyOnce ==
  /\ [][stopChan = "closed" => stopChan' = "closed"]_vars
  /\ [](fires <= 1 /\ (stopChan = "closed") = (fires = 1))
  /\ [](closeCalls >= 2 => panicked)
C8_Witness ==
  /\ closeCalls = 2 /\ panicked
  /\ stopChan = "closed" /\ fires = 1

\* C9: the identity service the proxy held when Close() was called has been
\* closed when Close() has returned, and no identity service is closed while
\* the stop signal is unfired.
C9_HeldServiceClosed ==
  /\ closePc = "returned" /\ heldAtCall # Nil => services[heldAtCall].closes >= 1
  /\ \A k \in DOMAIN services : services[k].closes >= 1 => stopChan = "closed"

\* C10: the snapshots Serve() received, and those it applied, are the first
\* ones the watcher delivered, in the order delivered, each once.
IsDeliveryPrefix(q) ==
  /\ Len(q) <= Len(delivered)
  /\ \A i \in DOMAIN q : q[i] = i
C11_Failed(l) == l.serve \in {"startfail", "errored"}
C11_UpstreamFailureIsLocal ==
  [][\A i \in UpstreamListeners :
       (i \in DOMAIN listeners' /\ ~C11_Failed(listeners[i]) /\ C11_Failed(listeners'[i])) =>
         /\ serveVars' = serveVars
         /\ service' = service /\ services' = services
         /\ DOMAIN listeners' = DOMAIN listeners
         /\ \A j \in DOMAIN listeners : j # i => listeners'[j] = listeners[j]]_vars
C11_Witness ==
  /\ servePc = "blocked" /\ wake = "none" /\ cfg # Nil /\ stopChan = "open"
  /\ \E i, j \in UpstreamListeners :
       /\ listeners[i].serve = "startfail"
       /\ listeners[j].serve = "serving"
  /\ \E k \in PublicListeners : listeners[k].serve = "serving"

\* C12: the proxy closes a listener only after the stop signal has fired: a
\* listener's Close() has been invoked only if the channel is closed, and a
\* step that invokes it is taken with the channel closed; applying a snapshot
\* closes nothing.
C12_OnlyStopClosesListeners ==
  /\ [](\A i \in DOMAIN listeners : listeners[i].closes > 0 => stopChan = "closed")
  /\ [][\A i \in DOMAIN listeners :
          (i \in DOMAIN listeners' /\ listeners'[i].closes # listeners[i].closes) =>
            stopChan = "closed" /\ applied' = applied]_vars
C12_Witness ==
  /\ stopChan = "open"
  /\ Len(applied) = 2
  /\ delivered[1].ups = <<5000>> /\ delivered[2].ups = <<>>
  /\ \E i \in UpstreamListeners :
       /\ listeners[i].snap = 1
       /\ listeners[i].serve = "serving" /\ listeners[i].closes = 0

\* C13: once the stop signal has fired, eventually every l.Serve() goroutine
\* has ended and every close-watcher goroutine has called l.Close() and ended
\* (under the Listener contract and a fair scheduler).
C13_ThreadsDone ==
  \A i \in DOMAIN listeners :
    /\ listeners[i].serve \in {"startfail", "errored", "stopped"}
    /\ listeners[i].closer = "done"
C13_ShutdownCompletes ==
  /\ [](\A i \in DOMAIN listeners : listeners[i].closer = "done" => listeners[i].closes >= 1)
  /\ (stopChan = "closed" ~> C13_ThreadsDone)
C13_Witness ==
  /\ stopChan = "closed" /\ C13_ThreadsDone
  /\ Len(listeners) = MaxListeners
  /\ \E i \in DOMAIN listeners : listeners[i].serve = "stopped"
  /\ servePc = "returned"

\* C14: Close() does not wait for the listeners: whatever the listener
\* goroutines are doing, its next step can be taken; so it can have returned
\* while a listener is still serving and has not been closed.
C14_CloseDoesNotWait ==
  ~panicked =>
    /\ closePc = "fired" => ENABLED CloseCheckService
    /\ closePc = "closing" => ENABLED CloseService
C14_Witness ==
  /\ closePc = "returned"
  /\ \E i \in DOMAIN listeners :
       /\ listeners[i].serve = "serving"
       /\ listeners[i].closer = "waiting" /\ listeners[i].closes = 0

\* C15: the identity service has a single writer: no state has Close() between
\* firing the stop signal and its read or close of p.service while Serve() is
\* about to assign p.service.
C15_NoConcurrentServiceAccess ==
  ~(~panicked /\ servePc = "setup" /\ closePc \in {"fired", "closing"})

\* C16: once Serve() has returned the coordinator's state, the listeners
\* started, the identity services built and p.service stay as they are,
\* whatever is delivered later; and a return that is not the identity service
\* failure is the one on the stop signal, and returns nil.
C16_StoppedIsTerminal ==
  /\ [][servePc = "returned" =>
          /\ serveVars' = serveVars
          /\ Len(listeners') = Len(listeners)
          /\ Len(services') = Len(services)
          /\ service' = service]_vars
  /\ [][servePc # "returned" /\ servePc' = "returned" /\ ~svcErr' =>
          stopChan = "closed" /\ serveRet' = "nil"]_vars
C16_Witness ==
  /\ servePc = "returned" /\ serveRet = "nil"
  /\ Len(delivered) = 2 /\ applied = <<1>> /\ watchCh = <<2>>

\* C17 as stated: once the stop signal has fired no snapshot is applied and no
\* listener is started.
C17_Original ==
  [][stopChan = "closed" =>
       applied' = applied /\ Len(listeners') = Len(listeners)]_vars
\* C17: a coordinator that was parked in select and woken by the stop signal
\* receives no snapshot, applies none and starts no listener, even when a
\* snapshot has become ready: its next step is the return.
C17_StopObservedWins ==
  [][servePc = "blocked" /\ wake = "stop" =>
       /\ received' = received /\ applied' = applied
       /\ Len(listeners') = Len(listeners)
       /\ servePc' \in {"blocked", "returned"}
       /\ servePc' = "returned" => serveRet' = "nil"]_vars
C17_Witness ==
  /\ servePc = "blocked" /\ wake = "stop"
  /\ stopChan = "closed" /\ watchCh # <<>>
  /\ applied # <<>>

\* C18: once the one Close() call and Serve() have both returned, every
\* identity service ever held by the proxy has been closed.
C18_NoServiceLeaked ==
  (closePc = "returned" /\ servePc = "returned" /\ closeCalls = 1) =>
    \A k \in DOMAIN services : services[k].closes >= 1

\* C19: no listener has had Close() called on it while its Serve() call has
\* not begun.
C19_NoCloseBeforeServe ==
  \A i \in DOMAIN listeners :
    listeners[i].closes > 0 => listeners[i].serve # "spawned"

\* C20: Serve() builds the identity service only while handling its first
\* snapshot, from that snapshot's service id; once a snapshot has been applied
\* p.service is never rebuilt or reassigned, and every listener, of whatever
\* snapshot, is bound to that one service.
C20_ServiceBuiltOnce ==
  /\ [](\A i \in DOMAIN listeners :
          /\ listeners[i].svc = service
          /\ services[service].sid = delivered[received[1]].sid)
  /\ [][Len(services') # Len(services) \/ service' # service =>
          /\ applied = <<>> /\ Len(received) = 1
          /\ Len(services') = Len(services) + 1
          /\ service' = Len(services')
          /\ services'[service'].sid = delivered[received[1]].sid]_vars
  /\ [][applied # <<>> =>
          service' = service /\ Len(services') = Len(services)]_vars
C20_Witness ==
  /\ Len(applied) = 2
  /\ delivered[applied[2]].sid # delivered[applied[1]].sid
  /\ \E i \in UpstreamListeners :
       /\ listeners[i].snap = applied[2]
       /\ listeners[i].svc = listeners[1].svc
       /\ services[listeners[i].svc].sid = delivered[applied[1]].sid

====
